---- MODULE Spec2Model ----
(***************************************************************************)
(* A model of vs.py (Rivest and Shen's voting-system code): one election.  *)
(* A is the election's list of alternatives (sorted, as every caller       *)
(* passes it), the profile P is assembled ballot by ballot with            *)
(* import_ballot, setup_TB builds the module-level tie-breaker table, and  *)
(* then the rules are evaluated in the order in which test_P calls them:   *)
(* pairwise_prefs, pairwise_margins, unanimous_winner, majority_winner,    *)
(* plurality_winner(s), Condorcet_winner, Borda_winner, minimax_winner,    *)
(* Smith_set, IRV_winner (round by round) and beatpath_winner.             *)
(*                                                                         *)
(* Further specifications share these definitions: SpecGT, the game        *)
(* solver of game_cvxopt.py followed by gtd_winner and gt_winner; SpecTwo, *)
(* two elections whose calls interleave over the one module-level TB;      *)
(* SpecIRV, IRV with more voters and any tie-breaker table; SpecPath, the  *)
(* beatpath strengths over four alternatives; SpecOrder, the order         *)
(* greaterD on strengths; SpecShift, the matrix the solvers hand to        *)
(* cvxopt; SpecCondorcet, the Condorcet-consistent rules under any         *)
(* tie-breaker table.                                                      *)
(*                                                                         *)
(* Alternatives are strings, a ballot is a tuple of alternatives and "="   *)
(* markers, a profile is a function (a Python dict) from ballots to        *)
(* multiplicities, a dict keyed by pairs is a function on pairs.           *)
(***************************************************************************)
EXTENDS Integers, Sequences, FiniteSets, TLC

VARIABLES
    A,          \* the list of alternatives of the election
    P,          \* the profile: ballot -> multiplicity
    params,     \* params["missing_preferred_less"]
    TB,         \* the module-level tie-breaker dict
    pc,         \* the next call test_P makes
    pref,       \* pref = pairwise_prefs(A,P,params)
    margin,     \* margin = pairwise_margins(A,P,params)
    condorcet,  \* value returned by Condorcet_winner
    smith,      \* value returned by Smith_set (a sorted list)
    remaining,  \* IRV_winner: candidates not yet eliminated
    elim,       \* IRV_winner: candidates eliminated, in order
    count,      \* IRV_winner: the counts of the latest round
    loser,      \* IRV_winner: the candidate eliminated in the latest round
    irv,        \* value returned by IRV_winner
    PD,         \* beatpath_potential_winners: the beatpath strengths
    bpw,        \* value returned by beatpath_potential_winners
    beatpath,   \* value returned by beatpath_winner
    unanimous,  \* value returned by unanimous_winner
    majority,   \* value returned by majority_winner
    plurality,  \* value returned by plurality_winners (a sorted list)
    plurality1, \* value returned by plurality_winner
    borda,      \* value returned by Borda_winner
    minimax,    \* value returned by minimax_winner
    raw,        \* game_cvxopt: the vector x the cvxopt solver returned
    strategy,   \* value returned by lp_solver / qp_solver (the list x)
    gtd,        \* value returned by gtd_winner
    draw,       \* non_uniform_picker: test_value, the draw of random.random()
    cant_pick,  \* non_uniform_picker: "Picker can't pick a value" was printed
    gt,         \* value returned by gt_winner
    elections,  \* two elections run side by side: elections[e]
    last,       \* the election that made the latest call (0: none yet)
    pairs,      \* greaterD, minD, maxD: the pairs p, q, r they are called with
    order,      \* the values greaterD, minD and maxD returned for them
    payoff,     \* lp_solver / qp_solver: the argument payoff, a list of rows
    shifted     \* lp_solver / qp_solver: v and M after "M = M + v"

\* the values the first-choice, Borda and minimax rules return
scoring_vars == <<unanimous, majority, plurality, plurality1, borda, minimax>>

\* the state of the game solver, of gtd_winner and of gt_winner
gt_vars == <<raw, strategy, gtd, draw, cant_pick, gt>>

\* the state of two elections run side by side
two_vars == <<elections, last>>

\* the arguments and results of the calls of greaterD, minD and maxD
order_vars == <<pairs, order>>

\* the matrix a solver is given and the matrix it hands to cvxopt
shift_vars == <<payoff, shifted>>

\* the values the pairwise rules, IRV and beatpath compute
rule_vars == <<pref, margin, condorcet, smith, remaining, elim, count,
               loser, irv, PD, bpw, beatpath>>

vars == <<A, P, params, TB, pc, pref, margin, condorcet, smith,
          remaining, elim, count, loser, irv, PD, bpw, beatpath,
          scoring_vars, gt_vars, two_vars, order_vars, shift_vars>>

(***************************************************************************)
(* Bounds and the universe of inputs.                                      *)
(***************************************************************************)
\* the total ballot weight (number of voters) of a modelled profile
MaxVoters == 2

\* the cvxopt solver's components are multiples of a unit, from -MaxNoise
\* (a slightly negative value) to MaxX
MaxX == 2

MaxNoise == 1

\* the total ballot weight of a profile of the IRV elections (SpecIRV)
MaxIRVVoters == 3

\* the largest number of voters on one side of a pair (SpecOrder)
MaxStrength == 2

\* the total ballot weight of a profile of the beatpath elections (SpecPath)
MaxPathVoters == 3

\* the sizes of a payoff matrix (SpecShift)
MatrixSizes == {1, 2}

\* the largest entry of a payoff matrix (SpecShift)
MaxPayoff == 2

\* the alternatives of the modelled elections, in Python's sort order
Alphabet == <<"A", "B", "C">>

\* the equivalence marker of a ballot
EQ == "="

\* Python's None
None == "None"

Range(s) == { s[i] : i \in DOMAIN s }

\* position of an alternative in Python's sort order (string comparison)
Rank(a) == CHOOSE i \in DOMAIN Alphabet : Alphabet[i] = a

RECURSIVE SumOver(_, _)
SumOver(S, f) ==
    IF S = {} THEN 0
    ELSE LET x == CHOOSE y \in S : TRUE
         IN  f[x] + SumOver(S \ {x}, f)

\* sorted(...) of a collection of distinct alternatives
RECURSIVE sorted(_)
sorted(S) ==
    IF S = {} THEN << >>
    ELSE LET x == CHOOSE y \in S : \A z \in S : Rank(y) <= Rank(z)
         IN  <<x>> \o sorted(S \ {x})

(***************************************************************************)
(* Ballots.                                                                *)
(***************************************************************************)
\* ballot_OK(ballot, A): entries distinct except "=", all items in A, no
\* leading, trailing or doubled "="
ballot_OK(ballot, AA) ==
    /\ \A i, j \in DOMAIN ballot :
          (i # j /\ ballot[i] = ballot[j]) => ballot[i] = EQ
    /\ \A i \in DOMAIN ballot : ballot[i] # EQ => ballot[i] \in Range(AA)
    /\ \A i \in DOMAIN ballot :
          ballot[i] = EQ =>
             /\ i # 1
             /\ i # Len(ballot)
             /\ ballot[i - 1] # EQ

\* every ballot on the alternatives of Alphabet that ballot_OK accepts
AllBallots ==
    LET Sym == Range(Alphabet) \cup {EQ}
    IN  { b \in UNION { [1..n -> Sym] : n \in 0..(2 * Len(Alphabet) - 1) } :
            ballot_OK(b, Alphabet) }

\* the alternatives listed on a ballot
Listed(ballot) == Range(ballot) \ {EQ}

number_of_ballots_in_profile(PP) == SumOver(DOMAIN PP, PP)

\* import_ballot(P, ballot, count)
import_ballot(PP, ballot, cnt) ==
    IF ballot \in DOMAIN PP
    THEN [PP EXCEPT ![ballot] = @ + cnt]
    ELSE (ballot :> cnt) @@ PP

(***************************************************************************)
(* Pairwise preferences and margins.                                       *)
(***************************************************************************)
\* number of occurrences of y in list s
Occ(s, y) == Cardinality({ i \in DOMAIN s : s[i] = y })

\* list.remove(x): drop the first occurrence of x
list_remove(s, x) ==
    LET i == CHOOSE k \in DOMAIN s :
                 s[k] = x /\ \A j \in 1..(k - 1) : s[j] # x
    IN  SubSeq(s, 1, i - 1) \o SubSeq(s, i + 1, Len(s))

\* the test "last_x == '='": the alternative joins the open equivalence class
joins_class_never(last_x) == FALSE

joins_class(last_x) == last_x = EQ

\* one iteration of "for x in ballot" of pairwise_prefs, on the loop's
\* locals st = [remaining, mentioned, equivalents, last_x, pref]
prefs_entry(st, x, w) ==
    IF x # EQ
    THEN LET joined == joins_class(st.last_x)
             ment   == IF joined THEN st.mentioned
                       ELSE st.mentioned \o st.equivalents
             equiv  == IF joined THEN Append(st.equivalents, x) ELSE <<x>>
         IN  [ remaining   |-> list_remove(st.remaining, x),
               mentioned   |-> ment,
               equivalents |-> equiv,
               last_x      |-> x,
               pref        |-> [ p \in DOMAIN st.pref |->
                                   IF p[2] = x
                                   THEN st.pref[p] + w * Occ(ment, p[1])
                                   ELSE st.pref[p] ] ]
    ELSE [st EXCEPT !.last_x = x]

RECURSIVE prefs_walk(_, _, _, _)
prefs_walk(st, ballot, i, w) ==
    IF i > Len(ballot) THEN st
    ELSE prefs_walk(prefs_entry(st, ballot[i], w), ballot, i + 1, w)

\* the candidates credited over the unlisted ones: "mentioned.extend(equivalents)"
all_mentioned_short(mentioned, equivalents) == mentioned

all_mentioned(mentioned, equivalents) == mentioned \o equivalents

\* the body of "for ballot in P" of pairwise_prefs: pref after one ballot
prefs_ballot(pr, AA, ballot, w, mpl) ==
    LET st0 == [ remaining   |-> AA,
                 mentioned   |-> << >>,
                 equivalents |-> << >>,
                 last_x      |-> None,
                 pref        |-> pr ]
        st  == prefs_walk(st0, ballot, 1, w)
        ment == all_mentioned(st.mentioned, st.equivalents)
    IN  IF mpl
        THEN [ p \in DOMAIN pr |->
                 st.pref[p] + w * Occ(ment, p[1]) * Occ(st.remaining, p[2]) ]
        ELSE st.pref

RECURSIVE prefs_loop(_, _, _, _, _)
prefs_loop(pr, AA, PP, todo, mpl) ==
    IF todo = {} THEN pr
    ELSE LET ballot == CHOOSE b \in todo : TRUE
         IN  prefs_loop(prefs_ballot(pr, AA, ballot, PP[ballot], mpl),
                        AA, PP, todo \ {ballot}, mpl)

\* pairwise_prefs(A, P, params)
pairwise_prefs(AA, PP, mpl) ==
    prefs_loop([ p \in Range(AA) \X Range(AA) |-> 0 ], AA, PP, DOMAIN PP, mpl)

\* the margin of one pair
margin_of_sum(pr, x, y) == pr[<<x, y>>] + pr[<<y, x>>]

margin_of(pr, x, y) == pr[<<x, y>>] - pr[<<y, x>>]

\* pairwise_margins(A, P, params)
pairwise_margins(AA, PP, mpl) ==
    LET pr == pairwise_prefs(AA, PP, mpl)
    IN  [ p \in DOMAIN pr |-> margin_of(pr, p[1], p[2]) ]

(***************************************************************************)
(* Condorcet winner and Smith set.                                         *)
(***************************************************************************)
\* the test "pref[a,b] > pref[b,a]" of Condorcet_winner
beats_or_ties(pr, a, b) == pr[<<a, b>>] >= pr[<<b, a>>]

beats(pr, a, b) == pr[<<a, b>>] > pr[<<b, a>>]

\* the loop "for a in A" of Condorcet_winner, from index i on
RECURSIVE Condorcet_loop(_, _, _)
Condorcet_loop(AA, pr, i) ==
    IF i > Len(AA) THEN None
    ELSE IF \A k \in DOMAIN AA : AA[k] = AA[i] \/ beats(pr, AA[i], AA[k])
         THEN AA[i]
         ELSE Condorcet_loop(AA, pr, i + 1)

\* Condorcet_winner(A, P, params, ...)
Condorcet_winner(AA, PP, mpl) ==
    Condorcet_loop(AA, pairwise_prefs(AA, PP, mpl), 1)

\* the edge test of Smith_aux: "b != a and pref[(a,b)] >= pref[(b,a)]"
Smith_edge_strict(pr, a, b) == b # a /\ pr[<<a, b>>] > pr[<<b, a>>]

Smith_edge_reversed(pr, a, b) == b # a /\ pr[<<b, a>>] >= pr[<<a, b>>]

Smith_edge(pr, a, b) == b # a /\ pr[<<a, b>>] >= pr[<<b, a>>]

Min2_first(x, y) == x

Min2(x, y) == IF x <= y THEN x ELSE y

\* the loop "while stack[-1] != a" of Smith_aux and the pop of a itself:
\* d = [stack, in_stack, scc]
RECURSIVE Smith_pop(_, _)
Smith_pop(d, a) ==
    LET b  == d.stack[Len(d.stack)]
        d1 == [ stack    |-> SubSeq(d.stack, 1, Len(d.stack) - 1),
                in_stack |-> d.in_stack \ {b},
                scc      |-> Append(d.scc, b) ]
    IN  IF b = a THEN d1 ELSE Smith_pop(d1, a)

\* Smith_aux(a, A, index, I, L, stack, in_stack, pref, n): the DFS state
\* d = [index, I, L, stack, in_stack, scc]; scc is the value the call returns.
\* d.completed is the history of the traversal: every SCC popped so far, in
\* the order of the pops
RECURSIVE Smith_aux(_, _, _, _), Smith_succ(_, _, _, _, _)
Smith_aux(a, AA, d, pr) ==
    LET d1 == [ index    |-> d.index + 1,
                I        |-> (a :> d.index) @@ d.I,
                L        |-> (a :> d.index) @@ d.L,
                stack    |-> Append(d.stack, a),
                in_stack |-> d.in_stack \cup {a},
                scc      |-> None,
                completed |-> d.completed ]
        d2 == Smith_succ(a, AA, d1, pr, 1)
    IN  IF d2.L[a] = d2.I[a]
        THEN LET popped == Smith_pop([ stack    |-> d2.stack,
                                       in_stack |-> d2.in_stack,
                                       scc      |-> << >> ], a)
             IN  [d2 EXCEPT !.stack = popped.stack,
                            !.in_stack = popped.in_stack,
                            !.scc = popped.scc,
                            !.completed = Append(@, Range(popped.scc))]
        ELSE d2

\* the loop "for b in A" of Smith_aux, from index k on
Smith_succ(a, AA, d, pr, k) ==
    IF k > Len(AA) THEN d
    ELSE LET b == AA[k]
         IN  IF Smith_edge(pr, a, b)
             THEN IF b \notin DOMAIN d.I
                  THEN LET d1 == Smith_aux(b, AA, d, pr)
                       IN  Smith_succ(a, AA,
                               [d1 EXCEPT !.L[a] = Min2(d1.L[a], d1.L[b])],
                               pr, k + 1)
                  ELSE IF b \in d.in_stack
                       THEN Smith_succ(a, AA,
                               [d EXCEPT !.L[a] = Min2(d.L[a], d.I[b])],
                               pr, k + 1)
                       ELSE Smith_succ(a, AA, d, pr, k + 1)
             ELSE Smith_succ(a, AA, d, pr, k + 1)

\* "(index,scc)=Smith_aux(...)" of Smith_set: scc is bound to the value the
\* latest DFS returned
rebound_first(scc, returned) == IF scc = None THEN returned ELSE scc

rebound(scc, returned) == returned

\* the loop "for a in A" of Smith_set, from index i on
RECURSIVE Smith_roots(_, _, _, _)
Smith_roots(AA, d, pr, i) ==
    IF i > Len(AA) THEN d
    ELSE IF AA[i] \notin DOMAIN d.I
         THEN LET d1 == Smith_aux(AA[i], AA, d, pr)
              IN  Smith_roots(AA, [d1 EXCEPT !.scc = rebound(d.scc, d1.scc)],
                              pr, i + 1)
         ELSE Smith_roots(AA, d, pr, i + 1)

\* the DFS of Smith_set(A, P, params, ...) when its loop "for a in A" ends
Smith_dfs(AA, PP, mpl) ==
    LET d0 == [ index    |-> 0,
                I        |-> << >>,
                L        |-> << >>,
                stack    |-> << >>,
                in_stack |-> {},
                scc      |-> None,
                completed |-> << >> ]
    IN  Smith_roots(AA, d0, pairwise_prefs(AA, PP, mpl), 1)

\* Smith_set(A, P, params, ...): sorted(scc) of the last DFS started
Smith_set(AA, PP, mpl) == sorted(Range(Smith_dfs(AA, PP, mpl).scc))

(***************************************************************************)
(* IRV.                                                                    *)
(***************************************************************************)
\* the filter of ballots_for: lambda x: x != "=" and x not in elim
kept_with_markers(x, el) == x \notin Range(el)

kept(x, el) == x # EQ /\ x \notin Range(el)

\* filter(lambda x: x != "=" and x not in elim, ballot)
RECURSIVE filtered_ballot(_, _)
filtered_ballot(ballot, el) ==
    IF ballot = << >> THEN << >>
    ELSE IF kept(Head(ballot), el)
         THEN <<Head(ballot)>> \o filtered_ballot(Tail(ballot), el)
         ELSE filtered_ballot(Tail(ballot), el)

\* ballots_for(B, c, elim), as the set of the ballots it lists
ballots_for(B, c, el) ==
    { ballot \in B :
        LET f == filtered_ballot(ballot, el)
        IN  Len(f) > 0 /\ f[1] = c }

\* IRV_count(A, P, elim)
IRV_count(AA, PP, el) ==
    [ c \in Range(AA) |-> SumOver(ballots_for(DOMAIN PP, c, el), PP) ]

\* the sort key "(count[c],-TB[c],c)" of IRV_winner
IRV_key_plain(cnt, tb, c) == <<cnt, tb, Rank(c)>>

IRV_key(cnt, tb, c) == <<cnt, 0 - tb, Rank(c)>>

\* Python's order on tuples of three numbers
tuple_less(s, t) ==
    \/ s[1] < t[1]
    \/ s[1] = t[1] /\ s[2] < t[2]
    \/ s[1] = t[1] /\ s[2] = t[2] /\ s[3] < t[3]

IRV_loser_last(rem, cnt, tb) ==
    CHOOSE c \in Range(rem) :
        \A e \in Range(rem) \ {c} :
            tuple_less(IRV_key(cnt[e], tb[e], e), IRV_key(cnt[c], tb[c], c))

\* L[0][2] of L = sorted([(count[c],-TB[c],c) for c in remaining])
IRV_loser(rem, cnt, tb) ==
    CHOOSE c \in Range(rem) :
        \A e \in Range(rem) \ {c} :
            tuple_less(IRV_key(cnt[c], tb[c], c), IRV_key(cnt[e], tb[e], e))

\* the list A after "remaining.remove(loser)": "remaining = A[:]" made
\* remaining a new list, so A keeps its elements
A_after_remove_shared(AA, rem) == rem

A_after_remove(AA, rem) == AA

\* the loop test "len(remaining)>1" of IRV_winner
IRV_more_than_two(rem) == Len(rem) > 2

IRV_more(rem) == Len(rem) > 1

(***************************************************************************)
(* Schulze's beatpath method.                                              *)
(***************************************************************************)
\* greaterD(ef, gh)
greaterD_loose(ef, gh) ==
    LET nef == ef[1]
        nfe == ef[2]
        ngh == gh[1]
        nhg == gh[2]
    IN  \/ nef >  nfe /\ ngh <= nhg
        \/ nef >= nfe /\ ngh <= nhg
        \/ nef >  nfe /\ ngh >  nhg /\ nef > ngh
        \/ nef >  nfe /\ ngh >  nhg /\ nef = ngh /\ nfe < nhg

greaterD(ef, gh) ==
    LET nef == ef[1]
        nfe == ef[2]
        ngh == gh[1]
        nhg == gh[2]
    IN  \/ nef >  nfe /\ ngh <= nhg
        \/ nef >= nfe /\ ngh <  nhg
        \/ nef >  nfe /\ ngh >  nhg /\ nef > ngh
        \/ nef >  nfe /\ ngh >  nhg /\ nef = ngh /\ nfe < nhg

\* minD(p, q)
minD_first(p, q) == p

minD(p, q) == IF greaterD(p, q) THEN q ELSE p

\* maxD(p, q)
maxD(p, q) == IF greaterD(p, q) THEN p ELSE q

\* the initial strengths: PD[i,j] = (pref[i,j],pref[j,i]) for i != j
PD_init(AA, pr) ==
    [ p \in { q \in Range(AA) \X Range(AA) : q[1] # q[2] } |->
        <<pr[<<p[1], p[2]>>], pr[<<p[2], p[1]>>]>> ]

\* the iterations of the triple loop "for i / for j / for k" of
\* beatpath_potential_winners that pass "if i != j" and "if i != k and
\* j != k", in the order the loop makes them, i outermost
PD_triples(AA) ==
    LET m   == Len(AA)
        all == [ t \in 1..(m * m * m) |->
                   << AA[((t - 1) \div (m * m)) + 1],
                      AA[(((t - 1) \div m) % m) + 1],
                      AA[((t - 1) % m) + 1] >> ]
        passes(ijk) == ijk[1] # ijk[2] /\ ijk[1] # ijk[3] /\ ijk[2] # ijk[3]
    IN  SelectSeq(all, passes)

\* the triple loop from its iteration t on:
\* PD[j,k] = maxD( PD[j,k],  minD( PD[j,i], PD[i,k] ) )
RECURSIVE PD_relax(_, _, _)
PD_relax(triples, pd, t) ==
    IF t > Len(triples) THEN pd
    ELSE LET i == triples[t][1]
             j == triples[t][2]
             k == triples[t][3]
         IN  PD_relax(triples,
                      [pd EXCEPT ![<<j, k>>] =
                          maxD(pd[<<j, k>>], minD(pd[<<j, i>>], pd[<<i, k>>]))],
                      t + 1)

\* the test "greaterD( PD[j,i], PD[i,j] )" that discards i
discards_swapped(pd, i, j) == greaterD(pd[<<i, j>>], pd[<<j, i>>])

discards(pd, i, j) == greaterD(pd[<<j, i>>], pd[<<i, j>>])

\* the loop "for i / for j" that discards from winners, from step t on
RECURSIVE winners_loop(_, _, _, _)
winners_loop(AA, pd, winners, t) ==
    LET m == Len(AA)
    IN  IF t >= m * m THEN winners
        ELSE LET i == AA[(t \div m) + 1]
                 j == AA[(t % m) + 1]
             IN  IF i # j /\ discards(pd, i, j)
                 THEN winners_loop(AA, pd, winners \ {i}, t + 1)
                 ELSE winners_loop(AA, pd, winners, t + 1)

\* beatpath_potential_winners(A, P, params, ...): the winners it returns (as
\* a set) and the strengths PD its triple loop ends with
beatpath_potential_winners(AA, PP, mpl) ==
    LET pd == PD_relax(PD_triples(AA),
                       PD_init(AA, pairwise_prefs(AA, PP, mpl)), 1)
    IN  [ PD      |-> pd,
          winners |-> winners_loop(AA, pd, Range(AA), 0) ]

\* min( [ (TB[w],w) for w in winners ] )[1]
TB_max(winners, tb) ==
    CHOOSE w \in winners :
        \A v \in winners \ {w} :
            tb[v] < tb[w] \/ (tb[v] = tb[w] /\ Rank(v) < Rank(w))

TB_min(winners, tb) ==
    CHOOSE w \in winners :
        \A v \in winners \ {w} :
            tb[w] < tb[v] \/ (tb[w] = tb[v] /\ Rank(w) < Rank(v))

(***************************************************************************)
(* Tie-breaker values.                                                     *)
(***************************************************************************)
\* the table setup_TB(A) builds: zip(sorted(A), range(len(A)))
TB_table(AA) ==
    LET srt == sorted(Range(AA))
    IN  [ a \in Range(AA) |-> (CHOOSE i \in DOMAIN srt : srt[i] = a) - 1 ]

\* setup_TB(A) on the module-level dict tb: "TB = { }", then the table
setup_TB_kept(tb, AA) == TB_table(AA) @@ tb

setup_TB(tb, AA) == TB_table(AA)

(***************************************************************************)
(* Rules on first-choice counts: unanimous, majority, plurality.           *)
(***************************************************************************)
\* the exception a lookup TB[a] raises when a is no key of TB
KeyError == "KeyError"

\* "a = ballot[0]" of first_choice_counts
first_listed(ballot) == ballot[1]

\* count[a] of first_choice_counts
first_choice_count(PP, a) ==
    SumOver({ ballot \in DOMAIN PP :
                 Len(ballot) > 0 /\ first_listed(ballot) = a }, PP)

\* Python's order on the pairs (count, alternative)
pair_less(s, t) ==
    \/ s[1] < t[1]
    \/ s[1] = t[1] /\ Rank(s[2]) < Rank(t[2])

\* sorted(L) followed by L.reverse(), on a set of pairs
RECURSIVE sorted_reversed(_)
sorted_reversed(S) ==
    IF S = {} THEN << >>
    ELSE LET top == CHOOSE y \in S : \A z \in S \ {y} : pair_less(z, y)
         IN  <<top>> \o sorted_reversed(S \ {top})

\* first_choice_counts(A, P): the pairs (count, a) in decreasing order
first_choice_counts(AA, PP) ==
    sorted_reversed({ <<first_choice_count(PP, a), a>> : a \in Range(AA) })

\* unanimous_winner(A, P, ...)
unanimous_winner(AA, PP) ==
    LET n == number_of_ballots_in_profile(PP)
        L == first_choice_counts(AA, PP)
        max_count == L[1][1]
    IN  IF max_count = n THEN L[1][2] ELSE None

\* the test "max_count>n/2" of majority_winner (Python 2: n/2 rounds down)
is_majority_or_half(max_count, n) == max_count >= n \div 2

is_majority(max_count, n) == max_count > n \div 2

\* majority_winner(A, P, ...)
majority_winner(AA, PP) ==
    LET n == number_of_ballots_in_profile(PP)
        L == first_choice_counts(AA, PP)
        max_count == L[1][1]
    IN  IF is_majority(max_count, n) THEN L[1][2] ELSE None

\* the test "cnt==max_count" of plurality_winners
is_top_or_less(cnt, max_count) == cnt <= max_count

is_top(cnt, max_count) == cnt = max_count

\* plurality_winners(A, P, ...)
plurality_winners(AA, PP) ==
    LET L == first_choice_counts(AA, PP)
        max_count == L[1][1]
    IN  sorted({ L[i][2] : i \in { j \in DOMAIN L : is_top(L[j][1], max_count) } })

\* plurality_winner(A, P, ...) under the tie-breaker dict tb
plurality_winner(AA, PP, tb) ==
    LET winners == Range(plurality_winners(AA, PP))
    IN  IF winners \subseteq DOMAIN tb THEN TB_min(winners, tb) ELSE KeyError

(***************************************************************************)
(* Borda and minimax.                                                      *)
(***************************************************************************)
\* the entry "(score,-TB[a],a)" of scorelist in Borda_winner
Borda_key_plain(score, tbv, a) == <<score, tbv, Rank(a)>>

Borda_key(score, tbv, a) == <<score, 0 - tbv, Rank(a)>>

\* sum( [ prefs[a,b] for b in A ] )
Borda_score(AA, prefs, a) ==
    SumOver({ <<a, b>> : b \in Range(AA) }, prefs)

\* Borda_winner(A, P, params, ...) under the tie-breaker dict tb
Borda_winner(AA, PP, mpl, tb) ==
    LET prefs == pairwise_prefs(AA, PP, mpl)
        key(a) == Borda_key(Borda_score(AA, prefs, a), tb[a], a)
    IN  IF Range(AA) \subseteq DOMAIN tb
        THEN CHOOSE a \in Range(AA) :
                \A b \in Range(AA) \ {a} : tuple_less(key(b), key(a))
        ELSE KeyError

\* the term margin[b,a] of a_score in minimax_winner
loss_swapped(mg, b, a) == mg[<<a, b>>]

loss(mg, b, a) == mg[<<b, a>>]

minimax_score_least(AA, mg, a) ==
    LET losses == { loss(mg, b, a) : b \in Range(AA) }
    IN  CHOOSE v \in losses : \A u \in losses : v <= u

\* a_score = max( [ margin[b,a] for b in A ] )
minimax_score(AA, mg, a) ==
    LET losses == { loss(mg, b, a) : b \in Range(AA) }
    IN  CHOOSE v \in losses : \A u \in losses : u <= v

\* the loop "for a in A" of minimax_winner, from position i on
RECURSIVE minimax_loop(_, _, _, _, _)
minimax_loop(AA, mg, tb, st, i) ==
    IF i > Len(AA) \/ st.winner = KeyError THEN st.winner
    ELSE LET a == AA[i]
             a_score == minimax_score(AA, mg, a)
             taken == [winner |-> a, min_score |-> a_score]
         IN  IF st.winner = None \/ a_score < st.min_score
             THEN minimax_loop(AA, mg, tb, taken, i + 1)
             ELSE IF a_score = st.min_score
             THEN IF {a, st.winner} \subseteq DOMAIN tb
                  THEN IF tb[a] < tb[st.winner]
                       THEN minimax_loop(AA, mg, tb, taken, i + 1)
                       ELSE minimax_loop(AA, mg, tb, st, i + 1)
                  ELSE KeyError
             ELSE minimax_loop(AA, mg, tb, st, i + 1)

\* minimax_winner(A, P, params, ...) under the tie-breaker dict tb
minimax_winner(AA, PP, mpl, tb) ==
    minimax_loop(AA, pairwise_margins(AA, PP, mpl), tb,
                 [winner |-> None, min_score |-> 0], 1)

(***************************************************************************)
(* The game solver (game_cvxopt.py) and GTD.                               *)
(* A float is modelled as a fraction <<numerator, denominator>> of         *)
(* integers; the linear or quadratic program itself is not modelled: the   *)
(* vector cvxopt returns is any vector of SolverResults.                   *)
(***************************************************************************)
\* the exception "xi / sumx" raises when sumx is 0.0
ZeroDivisionError == "ZeroDivisionError"

\* the vectors solvers.lp(...)['x'] and solvers.qp(...)['x'] may hold
SolverResults(m) == [ 1..m -> (0 - MaxNoise)..MaxX ]

\* "x[i] = max(0.0,x[i])"
clamp_kept(v) == v

clamp(v) == IF v < 0 THEN 0 ELSE v

\* "sumx = sum(x)" and "x = [ xi / sumx for xi in x]": the list returned,
\* or the exception raised
normalize(xx) ==
    LET sumx == SumOver(DOMAIN xx, xx)
    IN  IF sumx = 0
        THEN [raised |-> ZeroDivisionError, x |-> << >>]
        ELSE [raised |-> None, x |-> [ i \in DOMAIN xx |-> <<xx[i], sumx>> ]]

\* lp_solver(payoff), from the vector the linear program returned
lp_solver(rawx) == normalize([ i \in DOMAIN rawx |-> clamp(rawx[i]) ])

\* qp_solver(payoff), from the vector the quadratic program returned
qp_solver(rawx) == normalize([ i \in DOMAIN rawx |-> clamp(rawx[i]) ])

\* the order of two floats, as fractions with positive denominators
frac_less(p, q) == p[1] * q[2] < q[1] * p[2]

frac_equal(p, q) == p[1] * q[2] = q[1] * p[2]

\* the entry "(x[i],-TB[a],a)" of gtd_winner
gtd_key_plain(xi, tbv, a) == <<xi, tbv, Rank(a)>>

gtd_key(xi, tbv, a) == <<xi, 0 - tbv, Rank(a)>>

\* Python's order on the tuples (float, number, name)
gtd_less(s, t) ==
    \/ frac_less(s[1], t[1])
    \/ frac_equal(s[1], t[1]) /\ s[2] < t[2]
    \/ frac_equal(s[1], t[1]) /\ s[2] = t[2] /\ s[3] < t[3]

\* max( [ (x[i],-TB[a],a) for i,a in enumerate(A)] )[2] under the dict tb
gtd_pick(AA, xx, tb) ==
    LET key(i) == gtd_key(xx[i], tb[AA[i]], AA[i])
    IN  IF Range(AA) \subseteq DOMAIN tb
        THEN AA[CHOOSE i \in DOMAIN AA :
                    \A j \in DOMAIN AA \ {i} : gtd_less(key(j), key(i))]
        ELSE KeyError

\* matrix(payoff): cvxopt takes every inner list as a column
cvx_matrix(rows) ==
    [ rc \in (1..Len(rows)) \X (1..Len(rows)) |-> rows[rc[2]][rc[1]] ]

\* M.trans()
trans(M) == [ rc \in DOMAIN M |-> M[<<rc[2], rc[1]>>] ]

\* -M
negated(M) == [ rc \in DOMAIN M |-> 0 - M[rc] ]

\* min(M): the least entry
min_entry(M) == CHOOSE x \in Range(M) : \A y \in Range(M) : x <= y

\* "v = max(1.0, -2.0 * min(M))"
shift_constant_single(M) ==
    IF 0 - min_entry(M) > 1 THEN 0 - min_entry(M) ELSE 1

shift_constant(M) ==
    IF (0 - 2) * min_entry(M) > 1 THEN (0 - 2) * min_entry(M) ELSE 1

\* the first lines of lp_solver and qp_solver: M = matrix(payoff).trans(),
\* M = -M, v, and M = M + v
shifted_matrix(rows) ==
    LET M == negated(trans(cvx_matrix(rows)))
        v == shift_constant(M)
    IN  [ v |-> v, M |-> [ rc \in DOMAIN M |-> M[rc] + v ] ]

\* the sum of two floats, as fractions
frac_add(p, q) == <<p[1] * q[2] + q[1] * p[2], p[2] * q[2]>>

\* the values random.random() may return for the list xx: the multiples in
\* [0,1) of half the unit of xx, so that a draw can fall on a cumulative
\* probability and between two of them
Draws(xx) == { <<k, 2 * xx[1][2]>> : k \in 0..(2 * xx[1][2] - 1) }

\* the test "cum_prob > test_value" of non_uniform_picker
exceeds_or_equals(cum_prob, test_value) == ~frac_less(cum_prob, test_value)

exceeds(cum_prob, test_value) == frac_less(test_value, cum_prob)

\* the loop "for prob,cand in zip(x,L)" of non_uniform_picker from index i
\* on: the value of ans when it ends
RECURSIVE picker_loop(_, _, _, _, _)
picker_loop(xx, L, test_value, cum_prob, i) ==
    IF i > Len(xx) \/ i > Len(L) THEN None
    ELSE LET cum == frac_add(cum_prob, xx[i])
         IN  IF exceeds(cum, test_value) THEN L[i]
             ELSE picker_loop(xx, L, test_value, cum, i + 1)

\* non_uniform_picker(x, L) when random.random() returns test_value: the
\* element returned, and whether the "can't pick a value" branch ran
non_uniform_picker(xx, L, test_value) ==
    LET ans == picker_loop(xx, L, test_value, <<0, 1>>, 1)
    IN  [ ans       |-> IF ans = None THEN L[1] ELSE ans,
          cant_pick |-> ans = None ]

(***************************************************************************)
(* Whole calls of IRV_winner and beatpath_winner under a given TB.         *)
(***************************************************************************)
\* the loop of IRV_winner, from the lists rem and el on
RECURSIVE IRV_loop(_, _, _, _, _)
IRV_loop(AA, PP, tb, rem, el) ==
    IF ~IRV_more(rem) THEN rem[1]
    ELSE IF ~(Range(rem) \subseteq DOMAIN tb) THEN KeyError
    ELSE LET cnt == IRV_count(AA, PP, el)
             l   == IRV_loser(rem, cnt, tb)
         IN  IRV_loop(AA, PP, tb, list_remove(rem, l), Append(el, l))

\* IRV_winner(A, P, params, ...) under the tie-breaker dict tb
IRV_winner(AA, PP, tb) == IRV_loop(AA, PP, tb, AA, << >>)

\* beatpath_winner(A, P, params, ...) under the tie-breaker dict tb
beatpath_winner(AA, PP, mpl, tb) ==
    LET winners == beatpath_potential_winners(AA, PP, mpl).winners
    IN  IF winners \subseteq DOMAIN tb THEN TB_min(winners, tb) ELSE KeyError

(***************************************************************************)
(* The election.                                                           *)
(***************************************************************************)
\* no first-choice, Borda or minimax rule has been called
ScoringIdle ==
    /\ unanimous = None
    /\ majority = None
    /\ plurality = << >>
    /\ plurality1 = None
    /\ borda = None
    /\ minimax = None

\* no pairwise rule, IRV or beatpath has been called
RulesIdle ==
    /\ pref = << >>
    /\ margin = << >>
    /\ condorcet = None
    /\ smith = << >>
    /\ remaining = << >>
    /\ elim = << >>
    /\ count = << >>
    /\ loser = None
    /\ irv = None
    /\ PD = << >>
    /\ bpw = {}
    /\ beatpath = None

\* the game solver has not been called
GTIdle ==
    /\ raw = << >>
    /\ strategy = << >>
    /\ gtd = None
    /\ draw = None
    /\ cant_pick = FALSE
    /\ gt = None

\* no second election runs beside this one
TwoIdle ==
    /\ elections = << >>
    /\ last = 0

\* greaterD, minD and maxD have not been called on their own
OrderIdle ==
    /\ pairs = << >>
    /\ order = << >>

\* no solver has been given a payoff matrix
ShiftIdle ==
    /\ payoff = << >>
    /\ shifted = << >>

Init ==
    /\ \E m \in DOMAIN Alphabet : A = SubSeq(Alphabet, 1, m)
    /\ P = << >>
    /\ params \in BOOLEAN
    /\ TB = << >>
    /\ pc = "import"
    /\ pref = << >>
    /\ margin = << >>
    /\ condorcet = None
    /\ smith = << >>
    /\ remaining = << >>
    /\ elim = << >>
    /\ count = << >>
    /\ loser = None
    /\ irv = None
    /\ PD = << >>
    /\ bpw = {}
    /\ beatpath = None
    /\ ScoringIdle
    /\ GTIdle
    /\ TwoIdle
    /\ OrderIdle
    /\ ShiftIdle

ImportBallot ==
    /\ pc = "import"
    /\ number_of_ballots_in_profile(P) < MaxVoters
    /\ \E ballot \in AllBallots :
          /\ ballot_OK(ballot, A)
          /\ P' = import_ballot(P, ballot, 1)
    /\ UNCHANGED <<A, params, TB, pc, pref, margin, condorcet, smith,
                   remaining, elim, count, loser, irv, PD, bpw, beatpath>>
    /\ UNCHANGED <<scoring_vars, gt_vars, two_vars, order_vars, shift_vars>>

\* test_P: setup_TB(A), once the profile is complete
SetupTB ==
    /\ pc = "import"
    /\ TB' = setup_TB(TB, A)
    /\ pc' = "pairwise_prefs"
    /\ UNCHANGED <<A, P, params, pref, margin, condorcet, smith,
                   remaining, elim, count, loser, irv, PD, bpw, beatpath>>
    /\ UNCHANGED <<scoring_vars, gt_vars, two_vars, order_vars, shift_vars>>

\* test_P: pref = pairwise_prefs(A,P,params)
PairwisePrefs ==
    /\ pc = "pairwise_prefs"
    /\ pref' = pairwise_prefs(A, P, params)
    /\ pc' = "pairwise_margins"
    /\ UNCHANGED <<A, P, params, TB, margin, condorcet, smith,
                   remaining, elim, count, loser, irv, PD, bpw, beatpath>>
    /\ UNCHANGED <<scoring_vars, gt_vars, two_vars, order_vars, shift_vars>>

\* test_P: margin = pairwise_margins(A,P,params)
PairwiseMargins ==
    /\ pc = "pairwise_margins"
    /\ margin' = pairwise_margins(A, P, params)
    /\ pc' = "unanimous_winner"
    /\ UNCHANGED <<A, P, params, TB, pref, condorcet, smith,
                   remaining, elim, count, loser, irv, PD, bpw, beatpath>>
    /\ UNCHANGED <<scoring_vars, gt_vars, two_vars, order_vars, shift_vars>>

\* test_P: unanimous_winner(A,P,params,election_ID)
UnanimousWinner ==
    /\ pc = "unanimous_winner"
    /\ unanimous' = unanimous_winner(A, P)
    /\ pc' = "majority_winner"
    /\ UNCHANGED <<A, P, params, TB, pref, margin, condorcet, smith,
                   remaining, elim, count, loser, irv, PD, bpw, beatpath>>
    /\ UNCHANGED <<majority, plurality, plurality1, borda, minimax>>
    /\ UNCHANGED <<gt_vars, two_vars, order_vars, shift_vars>>

\* test_P: majority_winner(A,P,params,election_ID)
MajorityWinner ==
    /\ pc = "majority_winner"
    /\ majority' = majority_winner(A, P)
    /\ pc' = "plurality_winner"
    /\ UNCHANGED <<A, P, params, TB, pref, margin, condorcet, smith,
                   remaining, elim, count, loser, irv, PD, bpw, beatpath>>
    /\ UNCHANGED <<unanimous, plurality, plurality1, borda, minimax>>
    /\ UNCHANGED <<gt_vars, two_vars, order_vars, shift_vars>>

\* plurality_winner(A,P,params,election_ID), which calls plurality_winners
PluralityWinner ==
    /\ pc = "plurality_winner"
    /\ plurality' = plurality_winners(A, P)
    /\ plurality1' = plurality_winner(A, P, TB)
    /\ pc' = "Condorcet_winner"
    /\ UNCHANGED <<A, P, params, TB, pref, margin, condorcet, smith,
                   remaining, elim, count, loser, irv, PD, bpw, beatpath>>
    /\ UNCHANGED <<unanimous, majority, borda, minimax>>
    /\ UNCHANGED <<gt_vars, two_vars, order_vars, shift_vars>>

\* test_P: Condorcet_winner(A,P,params,election_ID)
CondorcetWinner ==
    /\ pc = "Condorcet_winner"
    /\ condorcet' = Condorcet_winner(A, P, params)
    /\ pc' = "Borda_winner"
    /\ UNCHANGED <<A, P, params, TB, pref, margin, smith,
                   remaining, elim, count, loser, irv, PD, bpw, beatpath>>
    /\ UNCHANGED <<scoring_vars, gt_vars, two_vars, order_vars, shift_vars>>

\* test_P: Borda_winner(A,P,params,election_ID)
BordaWinner ==
    /\ pc = "Borda_winner"
    /\ borda' = Borda_winner(A, P, params, TB)
    /\ pc' = "minimax_winner"
    /\ UNCHANGED <<A, P, params, TB, pref, margin, condorcet, smith,
                   remaining, elim, count, loser, irv, PD, bpw, beatpath>>
    /\ UNCHANGED <<unanimous, majority, plurality, plurality1, minimax>>
    /\ UNCHANGED <<gt_vars, two_vars, order_vars, shift_vars>>

\* test_P: minimax_winner(A,P,params,election_ID)
MinimaxWinner ==
    /\ pc = "minimax_winner"
    /\ minimax' = minimax_winner(A, P, params, TB)
    /\ pc' = "Smith_set"
    /\ UNCHANGED <<A, P, params, TB, pref, margin, condorcet, smith,
                   remaining, elim, count, loser, irv, PD, bpw, beatpath>>
    /\ UNCHANGED <<unanimous, majority, plurality, plurality1, borda>>
    /\ UNCHANGED <<gt_vars, two_vars, order_vars, shift_vars>>

\* test_P: Smith = Smith_set(A,P,params,election_ID)
SmithSet ==
    /\ pc = "Smith_set"
    /\ smith' = Smith_set(A, P, params)
    /\ pc' = "IRV_winner"
    /\ UNCHANGED <<A, P, params, TB, pref, margin, condorcet,
                   remaining, elim, count, loser, irv, PD, bpw, beatpath>>
    /\ UNCHANGED <<scoring_vars, gt_vars, two_vars, order_vars, shift_vars>>

\* IRV_winner: remaining = A[:], elim = []
IRVBegin ==
    /\ pc = "IRV_winner"
    /\ remaining' = A
    /\ elim' = << >>
    /\ pc' = "IRV_loop"
    /\ UNCHANGED <<A, P, params, TB, pref, margin, condorcet, smith,
                   count, loser, irv, PD, bpw, beatpath>>
    /\ UNCHANGED <<scoring_vars, gt_vars, two_vars, order_vars, shift_vars>>

\* IRV_winner: one iteration of "while len(remaining)>1"
IRVRound ==
    /\ pc = "IRV_loop"
    /\ IRV_more(remaining)
    /\ LET cnt == IRV_count(A, P, elim)
           l   == IRV_loser(remaining, cnt, TB)
       IN  /\ count' = cnt
           /\ loser' = l
           /\ remaining' = list_remove(remaining, l)
           /\ elim' = Append(elim, l)
           /\ A' = A_after_remove(A, list_remove(remaining, l))
    /\ UNCHANGED <<P, params, TB, pc, pref, margin, condorcet, smith,
                   irv, PD, bpw, beatpath>>
    /\ UNCHANGED <<scoring_vars, gt_vars, two_vars, order_vars, shift_vars>>

\* IRV_winner: winner = remaining[0]; return winner
IRVReturn ==
    /\ pc = "IRV_loop"
    /\ ~IRV_more(remaining)
    /\ irv' = remaining[1]
    /\ pc' = "beatpath_winner"
    /\ UNCHANGED <<A, P, params, TB, pref, margin, condorcet, smith,
                   remaining, elim, count, loser, PD, bpw, beatpath>>
    /\ UNCHANGED <<scoring_vars, gt_vars, two_vars, order_vars, shift_vars>>

\* beatpath_winner: winners = beatpath_potential_winners(A,P,params,...)
BeatpathPotentialWinners ==
    /\ pc = "beatpath_winner"
    /\ LET r == beatpath_potential_winners(A, P, params)
       IN  /\ PD' = r.PD
           /\ bpw' = r.winners
    /\ pc' = "beatpath_tiebreak"
    /\ UNCHANGED <<A, P, params, TB, pref, margin, condorcet, smith,
                   remaining, elim, count, loser, irv, beatpath>>
    /\ UNCHANGED <<scoring_vars, gt_vars, two_vars, order_vars, shift_vars>>

\* beatpath_winner: winner = min( [ (TB[w],w) for w in winners ] )[1]
BeatpathWinner ==
    /\ pc = "beatpath_tiebreak"
    /\ beatpath' = TB_min(bpw, TB)
    /\ pc' = "done"
    /\ UNCHANGED <<A, P, params, TB, pref, margin, condorcet, smith,
                   remaining, elim, count, loser, irv, PD, bpw>>
    /\ UNCHANGED <<scoring_vars, gt_vars, two_vars, order_vars, shift_vars>>

Next ==
    \/ ImportBallot
    \/ SetupTB
    \/ PairwisePrefs
    \/ PairwiseMargins
    \/ UnanimousWinner
    \/ MajorityWinner
    \/ PluralityWinner
    \/ CondorcetWinner
    \/ BordaWinner
    \/ MinimaxWinner
    \/ SmithSet
    \/ IRVBegin
    \/ IRVRound
    \/ IRVReturn
    \/ BeatpathPotentialWinners
    \/ BeatpathWinner

Spec == Init /\ [][Next]_vars

(***************************************************************************)
(* The game-theoretic rules: compare_methods has fixed A and called        *)
(* setup_TB(A); it calls gt_optimal_mixed_strategy_lp (lp_solver),         *)
(* gtd_winner calls gt_optimal_mixed_strategy (qp_solver) and picks, and   *)
(* gt_winner draws an alternative from the same strategy.                  *)
(***************************************************************************)
InitGT ==
    /\ \E m \in DOMAIN Alphabet : A = SubSeq(Alphabet, 1, m)
    /\ P = << >>
    /\ params = TRUE
    /\ TB = TB_table(A)
    /\ pc = "lp_solver"
    /\ RulesIdle
    /\ ScoringIdle
    /\ GTIdle
    /\ TwoIdle
    /\ OrderIdle
    /\ ShiftIdle

\* lp_x = game_cvxopt.lp_solver(M)
LpSolver ==
    /\ pc = "lp_solver"
    /\ \E rawx \in SolverResults(Len(A)) :
          /\ raw' = rawx
          /\ strategy' = lp_solver(rawx).x
          /\ pc' = IF lp_solver(rawx).raised = None
                   THEN "qp_solver" ELSE "gt_raised"
    /\ UNCHANGED <<A, P, params, TB, gtd, draw, cant_pick, gt>>
    /\ UNCHANGED <<rule_vars, scoring_vars, two_vars, order_vars, shift_vars>>

\* gtd_winner: x = gt_optimal_mixed_strategy(...), that is qp_solver(M)
QpSolver ==
    /\ pc = "qp_solver"
    /\ \E rawx \in SolverResults(Len(A)) :
          /\ raw' = rawx
          /\ strategy' = qp_solver(rawx).x
          /\ pc' = IF qp_solver(rawx).raised = None
                   THEN "gtd_winner" ELSE "gt_raised"
    /\ UNCHANGED <<A, P, params, TB, gtd, draw, cant_pick, gt>>
    /\ UNCHANGED <<rule_vars, scoring_vars, two_vars, order_vars, shift_vars>>

\* gtd_winner = max( [ (x[i],-TB[a],a) for i,a in enumerate(A)] )[2]
GtdWinner ==
    /\ pc = "gtd_winner"
    /\ gtd' = gtd_pick(A, strategy, TB)
    /\ pc' = "gt_winner"
    /\ UNCHANGED <<A, P, params, TB, raw, strategy, draw, cant_pick, gt>>
    /\ UNCHANGED <<rule_vars, scoring_vars, two_vars, order_vars, shift_vars>>

\* gt_winner: x = gt_optimal_mixed_strategy(...) is qp_solver(M) for the
\* same M, hence the same list; gt_winner = non_uniform_picker(x,A)
GtWinner ==
    /\ pc = "gt_winner"
    /\ \E test_value \in Draws(strategy) :
          LET r == non_uniform_picker(strategy, A, test_value)
          IN  /\ draw' = test_value
              /\ cant_pick' = r.cant_pick
              /\ gt' = r.ans
    /\ pc' = "gt_done"
    /\ UNCHANGED <<A, P, params, TB, raw, strategy, gtd>>
    /\ UNCHANGED <<rule_vars, scoring_vars, two_vars, order_vars, shift_vars>>

NextGT ==
    \/ LpSolver
    \/ QpSolver
    \/ GtdWinner
    \/ GtWinner

SpecGT == InitGT /\ [][NextGT]_vars

(***************************************************************************)
(* Two elections side by side.  Each has its own alternative list and      *)
(* profile of full ballots, calls setup_TB and then the methods that       *)
(* compare_methods is given, one whole call at a time; the calls of the    *)
(* two elections interleave in any order.  TB is the one module-level      *)
(* dict.  A call that raises ends its election.                            *)
(***************************************************************************)
\* the calls of one election, in order
Calls ==
    << "setup_TB", "plurality_winner", "IRV_winner", "Borda_winner",
       "minimax_winner", "beatpath_winner", "gtd_winner" >>

CallNo(c) == CHOOSE i \in DOMAIN Calls : Calls[i] = c

\* the sorted alternative lists over Alphabet
AlternativeLists == { sorted(S) : S \in SUBSET Range(Alphabet) \ {{}} }

\* the profiles of at most one full ballot ("full ballots wanted")
FullProfiles(AA) ==
    {<< >>} \cup
    { (ballot :> 1) : ballot \in { b \in AllBallots :
                           Len(b) = Len(AA) /\ Listed(b) = Range(AA) } }

\* Python's order on lists of alternatives
RECURSIVE list_less(_, _)
list_less(s, t) ==
    IF t = << >> THEN FALSE
    ELSE IF s = << >> THEN TRUE
    ELSE IF Head(s) # Head(t) THEN Rank(Head(s)) < Rank(Head(t))
    ELSE list_less(Tail(s), Tail(t))

\* the two elections are interchangeable: the first is the one whose
\* alternative list sorts first
InitTwo ==
    /\ \E A1, A2 \in AlternativeLists :
          /\ list_less(A1, A2)
          /\ \E P1 \in FullProfiles(A1), P2 \in FullProfiles(A2) :
                elections =
                    << [A |-> A1, P |-> P1, next |-> 1,
                        won |-> << >>, alone |-> << >>],
                       [A |-> A2, P |-> P2, next |-> 1,
                        won |-> << >>, alone |-> << >>] >>
    /\ last = 0
    /\ A = << >>
    /\ P = << >>
    /\ params = TRUE
    /\ TB = << >>
    /\ pc = "two"
    /\ RulesIdle
    /\ ScoringIdle
    /\ GTIdle
    /\ OrderIdle
    /\ ShiftIdle

\* election e is about to make the call c
At(e, c) == elections[e].next = CallNo(c)

\* a call of election e returns got (or raises it); alone is what it returns
\* when the election runs by itself
Returns(e, got, alone) ==
    /\ elections' =
          [elections EXCEPT
              ![e].won = Append(@, got),
              ![e].alone = Append(@, alone),
              ![e].next = IF got \in {KeyError, ZeroDivisionError}
                          THEN Len(Calls) + 1 ELSE @ + 1]
    /\ last' = e
    /\ UNCHANGED <<A, P, params, TB, pc, rule_vars, scoring_vars, gt_vars,
                 order_vars, shift_vars>>

\* setup_TB(A) of election e
TwoSetupTB ==
    \E e \in DOMAIN elections :
        /\ At(e, "setup_TB")
        /\ TB' = setup_TB(TB, elections[e].A)
        /\ elections' = [elections EXCEPT ![e].next = @ + 1]
        /\ last' = e
        /\ UNCHANGED <<A, P, params, pc, rule_vars, scoring_vars, gt_vars,
                     order_vars, shift_vars>>

TwoPluralityWinner ==
    \E e \in DOMAIN elections :
        /\ At(e, "plurality_winner")
        /\ LET E == elections[e]
           IN  Returns(e, plurality_winner(E.A, E.P, TB),
                          plurality_winner(E.A, E.P, TB_table(E.A)))

TwoIRVWinner ==
    \E e \in DOMAIN elections :
        /\ At(e, "IRV_winner")
        /\ LET E == elections[e]
           IN  Returns(e, IRV_winner(E.A, E.P, TB),
                          IRV_winner(E.A, E.P, TB_table(E.A)))

TwoBordaWinner ==
    \E e \in DOMAIN elections :
        /\ At(e, "Borda_winner")
        /\ LET E == elections[e]
           IN  Returns(e, Borda_winner(E.A, E.P, TRUE, TB),
                          Borda_winner(E.A, E.P, TRUE, TB_table(E.A)))

TwoMinimaxWinner ==
    \E e \in DOMAIN elections :
        /\ At(e, "minimax_winner")
        /\ LET E == elections[e]
           IN  Returns(e, minimax_winner(E.A, E.P, TRUE, TB),
                          minimax_winner(E.A, E.P, TRUE, TB_table(E.A)))

TwoBeatpathWinner ==
    \E e \in DOMAIN elections :
        /\ At(e, "beatpath_winner")
        /\ LET E == elections[e]
           IN  Returns(e, beatpath_winner(E.A, E.P, TRUE, TB),
                          beatpath_winner(E.A, E.P, TRUE, TB_table(E.A)))

\* gtd_winner of election e: the solver's vector is the same whether or not
\* another election runs
TwoGtdWinner ==
    \E e \in DOMAIN elections :
        /\ At(e, "gtd_winner")
        /\ LET E == elections[e]
           IN  \E r \in { qp_solver(rawx) : rawx \in SolverResults(Len(E.A)) } :
                  IF r.raised = None
                  THEN Returns(e, gtd_pick(E.A, r.x, TB),
                                  gtd_pick(E.A, r.x, TB_table(E.A)))
                  ELSE Returns(e, r.raised, r.raised)

NextTwo ==
    \/ TwoSetupTB
    \/ TwoPluralityWinner
    \/ TwoIRVWinner
    \/ TwoBordaWinner
    \/ TwoMinimaxWinner
    \/ TwoBeatpathWinner
    \/ TwoGtdWinner

SpecTwo == InitTwo /\ [][NextTwo]_vars

(***************************************************************************)
(* IRV elections with more voters: the profile is imported, TB is set up,  *)
(* majority_winner and IRV_winner are called.  The ballots rank fewer      *)
(* alternatives than Alphabet has: IRV_winner returns before the last      *)
(* entry of a full ballot could be credited, and majority_winner reads the *)
(* first entry only.  TB is any table setup_TB can build, with or without  *)
(* use_random_TB_values.                                                   *)
(***************************************************************************)
\* the ballots that do not list every alternative of Alphabet
TruncatedBallots == { b \in AllBallots : Listed(b) # Range(Alphabet) }

\* the tables setup_TB(A) can build: "random.shuffle(value_list)" makes
\* value_list any arrangement of range(len(A))
TB_shuffled(AA) ==
    { tb \in [ Range(AA) -> 0..(Len(AA) - 1) ] :
        \A a, b \in Range(AA) : a # b => tb[a] # tb[b] }

InitIRV ==
    /\ \E m \in DOMAIN Alphabet : A = SubSeq(Alphabet, 1, m)
    /\ P = << >>
    /\ params = TRUE
    /\ TB = << >>
    /\ pc = "import"
    /\ RulesIdle
    /\ ScoringIdle
    /\ GTIdle
    /\ TwoIdle
    /\ OrderIdle
    /\ ShiftIdle

IrvImportBallot ==
    /\ pc = "import"
    /\ number_of_ballots_in_profile(P) < MaxIRVVoters
    /\ \E ballot \in TruncatedBallots :
          /\ ballot_OK(ballot, A)
          /\ P' = import_ballot(P, ballot, 1)
    /\ UNCHANGED <<A, params, TB, pc, rule_vars, scoring_vars, gt_vars,
                   two_vars, order_vars, shift_vars>>

\* setup_TB(A), with the values in any order
IrvSetupTB ==
    /\ pc = "import"
    /\ TB' \in TB_shuffled(A)
    /\ pc' = "majority_winner"
    /\ UNCHANGED <<A, P, params, rule_vars, scoring_vars, gt_vars, two_vars,
                   order_vars, shift_vars>>

\* majority_winner(A,P,params,election_ID), followed by IRV_winner
IrvMajorityWinner ==
    /\ pc = "majority_winner"
    /\ majority' = majority_winner(A, P)
    /\ pc' = "IRV_winner"
    /\ UNCHANGED <<A, P, params, TB, rule_vars, gt_vars, two_vars, order_vars, shift_vars>>
    /\ UNCHANGED <<unanimous, plurality, plurality1, borda, minimax>>

NextIRV ==
    \/ IrvImportBallot
    \/ IrvSetupTB
    \/ IrvMajorityWinner
    \/ IRVBegin
    \/ IRVRound
    \/ IRVReturn

SpecIRV == InitIRV /\ [][NextIRV]_vars

(***************************************************************************)
(* Beatpath elections with four alternatives, so that a path can have two  *)
(* intermediate alternatives.  A ballot ranks two alternatives; with       *)
(* missing_preferred_less off it adds one to a single entry of pref, so    *)
(* the profiles give pref any values that add up to MaxPathVoters.         *)
(***************************************************************************)
\* the alternatives of the beatpath elections, in Python's sort order
PathAlternatives == <<"A", "B", "C", "D">>

\* the ballots that rank one alternative above one other
PairBallots(AA) ==
    { ballot \in Range(AA) \X Range(AA) : ballot[1] # ballot[2] }

InitPath ==
    /\ \E m \in 3..Len(PathAlternatives) : A = SubSeq(PathAlternatives, 1, m)
    /\ P = << >>
    /\ params \in BOOLEAN
    /\ TB = << >>
    /\ pc = "import"
    /\ RulesIdle
    /\ ScoringIdle
    /\ GTIdle
    /\ TwoIdle
    /\ OrderIdle
    /\ ShiftIdle

PathImportBallot ==
    /\ pc = "import"
    /\ number_of_ballots_in_profile(P) < MaxPathVoters
    /\ \E ballot \in PairBallots(A) :
          /\ ballot_OK(ballot, A)
          /\ P' = import_ballot(P, ballot, 1)
    /\ UNCHANGED <<A, params, TB, pc, rule_vars, scoring_vars, gt_vars,
                   two_vars, order_vars, shift_vars>>

\* pref = pairwise_prefs(A,P,params), once the profile is complete; the
\* next call is beatpath_potential_winners
PathPairwisePrefs ==
    /\ pc = "import"
    /\ pref' = pairwise_prefs(A, P, params)
    /\ pc' = "beatpath_winner"
    /\ UNCHANGED <<A, P, params, TB, margin, condorcet, smith,
                   remaining, elim, count, loser, irv, PD, bpw, beatpath>>
    /\ UNCHANGED <<scoring_vars, gt_vars, two_vars, order_vars, shift_vars>>

NextPath ==
    \/ PathImportBallot
    \/ PathPairwisePrefs
    \/ BeatpathPotentialWinners

SpecPath == InitPath /\ [][NextPath]_vars

(***************************************************************************)
(* The order on pair strengths by itself: greaterD, minD and maxD are      *)
(* called on pairs (pref[e,f], pref[f,e]) of any numbers of voters.        *)
(***************************************************************************)
\* the pairs (pref[e,f], pref[f,e])
Strengths == (0..MaxStrength) \X (0..MaxStrength)

InitOrder ==
    /\ A = << >>
    /\ P = << >>
    /\ params = TRUE
    /\ TB = << >>
    /\ pc = "greaterD"
    /\ RulesIdle
    /\ ScoringIdle
    /\ GTIdle
    /\ TwoIdle
    /\ pairs \in Strengths \X Strengths \X Strengths
    /\ order = << >>
    /\ ShiftIdle

\* the calls of greaterD, minD and maxD on the pairs p, q, r
CompareD ==
    /\ pc = "greaterD"
    /\ LET p == pairs[1]
           q == pairs[2]
           r == pairs[3]
       IN  order' = [ pp   |-> greaterD(p, p),
                      pq   |-> greaterD(p, q),
                      qp   |-> greaterD(q, p),
                      qr   |-> greaterD(q, r),
                      pr   |-> greaterD(p, r),
                      minD |-> minD(p, q),
                      maxD |-> maxD(p, q),
                      min_over_max |-> greaterD(minD(p, q), maxD(p, q)) ]
    /\ pc' = "compared"
    /\ UNCHANGED <<A, P, params, TB, pairs, rule_vars, scoring_vars, gt_vars,
                   two_vars, shift_vars>>

NextOrder ==
    \/ CompareD

SpecOrder == InitOrder /\ [][NextOrder]_vars

(***************************************************************************)
(* The solvers on any square matrix of integers: lp_solver and then        *)
(* qp_solver prepare the matrix they hand to cvxopt.                       *)
(***************************************************************************)
\* the square matrices of integers, as lists of rows
Payoffs ==
    UNION { [ 1..m -> [ 1..m -> (0 - MaxPayoff)..MaxPayoff ] ] :
              m \in MatrixSizes }

InitShift ==
    /\ A = << >>
    /\ P = << >>
    /\ params = TRUE
    /\ TB = << >>
    /\ pc = "lp_solver"
    /\ RulesIdle
    /\ ScoringIdle
    /\ GTIdle
    /\ TwoIdle
    /\ OrderIdle
    /\ payoff \in Payoffs
    /\ shifted = << >>

\* lp_solver(payoff), up to "M = M + v"
LpShift ==
    /\ pc = "lp_solver"
    /\ shifted' = shifted_matrix(payoff)
    /\ pc' = "qp_solver"
    /\ UNCHANGED <<A, P, params, TB, payoff, rule_vars, scoring_vars, gt_vars,
                   two_vars, order_vars>>

\* qp_solver(payoff), up to "M = M + v"
QpShift ==
    /\ pc = "qp_solver"
    /\ shifted' = shifted_matrix(payoff)
    /\ pc' = "shifted"
    /\ UNCHANGED <<A, P, params, TB, payoff, rule_vars, scoring_vars, gt_vars,
                   two_vars, order_vars>>

NextShift ==
    \/ LpShift
    \/ QpShift

SpecShift == InitShift /\ [][NextShift]_vars

(***************************************************************************)
(* The rules that elect a Condorcet winner, under any tie-breaker table:   *)
(* the profile is imported, setup_TB builds TB in any order, and           *)
(* Condorcet_winner, minimax_winner and beatpath_winner are called.  The   *)
(* ballots are strict rankings of some or all of the alternatives.         *)
(***************************************************************************)
\* the ballots that rank their alternatives strictly, without "=" markers
RankingBallots == { b \in AllBallots : EQ \notin Range(b) }

CondorcetImportBallot ==
    /\ pc = "import"
    /\ number_of_ballots_in_profile(P) < MaxVoters
    /\ \E ballot \in RankingBallots :
          /\ ballot_OK(ballot, A)
          /\ P' = import_ballot(P, ballot, 1)
    /\ UNCHANGED <<A, params, TB, pc, rule_vars, scoring_vars, gt_vars,
                   two_vars, order_vars, shift_vars>>

\* setup_TB(A), with the values in any order
CondorcetSetupTB ==
    /\ pc = "import"
    /\ TB' \in TB_shuffled(A)
    /\ pc' = "Condorcet_winner"
    /\ UNCHANGED <<A, P, params, rule_vars, scoring_vars, gt_vars, two_vars,
                   order_vars, shift_vars>>

\* Condorcet_winner(A,P,params,election_ID), followed by minimax_winner
CondorcetThenMinimax ==
    /\ pc = "Condorcet_winner"
    /\ condorcet' = Condorcet_winner(A, P, params)
    /\ pc' = "minimax_winner"
    /\ UNCHANGED <<A, P, params, TB, pref, margin, smith,
                   remaining, elim, count, loser, irv, PD, bpw, beatpath>>
    /\ UNCHANGED <<scoring_vars, gt_vars, two_vars, order_vars, shift_vars>>

\* minimax_winner(A,P,params,election_ID), followed by beatpath_winner
MinimaxThenBeatpath ==
    /\ pc = "minimax_winner"
    /\ minimax' = minimax_winner(A, P, params, TB)
    /\ pc' = "beatpath_winner"
    /\ UNCHANGED <<A, P, params, TB, rule_vars>>
    /\ UNCHANGED <<unanimous, majority, plurality, plurality1, borda>>
    /\ UNCHANGED <<gt_vars, two_vars, order_vars, shift_vars>>

NextCondorcet ==
    \/ CondorcetImportBallot
    \/ CondorcetSetupTB
    \/ CondorcetThenMinimax
    \/ MinimaxThenBeatpath
    \/ BeatpathPotentialWinners
    \/ BeatpathWinner

SpecCondorcet == Init /\ [][NextCondorcet]_vars

(***************************************************************************)
(* Properties.                                                             *)
(***************************************************************************)
\* the calls of test_P in the order it makes them
Stages ==
    << "import", "pairwise_prefs", "pairwise_margins", "unanimous_winner",
       "majority_winner", "plurality_winner", "Condorcet_winner",
       "Borda_winner", "minimax_winner", "Smith_set", "IRV_winner",
       "IRV_loop", "beatpath_winner", "beatpath_tiebreak", "done" >>

StageNo(p) == CHOOSE i \in DOMAIN Stages : Stages[i] = p

\* the call named stage has returned
After(stage) == StageNo(pc) > StageNo(stage)

\* the call named stage has just returned: test_P is about to make the next
Returned(stage) == StageNo(pc) = StageNo(stage) + 1

Alts == Range(A)

StrictlyBeats(a, b) == pref[<<a, b>>] > pref[<<b, a>>]

WeaklyBeats(a, b) == pref[<<a, b>>] >= pref[<<b, a>>]

\* C1: whenever Condorcet_winner returns an alternative w, Smith_set returns
\* the one-element list [w].
C1_CondorcetWinnerIsSmithSet ==
    (Returned("Smith_set") /\ condorcet # None) => smith = <<condorcet>>

\* a Condorcet winner that is not the first root of the DFS
C1_Witness ==
    /\ After("Smith_set")
    /\ Len(A) = 3
    /\ condorcet = "C"
    /\ smith = <<"C">>

\* the alternatives that strictly beat every rival
CondorcetSet == { a \in Alts : \A b \in Alts \ {a} : StrictlyBeats(a, b) }

\* C2: Condorcet_winner returns a exactly when a strictly beats every
\* b # a (a pairwise tie disqualifies a); at most one alternative does, and
\* the function returns None when none does.
C2_CondorcetWinnerStrict ==
    Returned("Condorcet_winner") =>
        /\ Cardinality(CondorcetSet) <= 1
        /\ \A a \in Alts : (condorcet = a) <=> (a \in CondorcetSet)
        /\ (CondorcetSet = {}) => (condorcet = None)

\* an alternative that loses to nobody but is disqualified by a tie
C2_Witness ==
    /\ After("Condorcet_winner")
    /\ condorcet = None
    /\ \E a \in Alts :
          /\ \A b \in Alts \ {a} : WeaklyBeats(a, b)
          /\ \E b \in Alts \ {a} :
                pref[<<a, b>>] = pref[<<b, a>>] /\ pref[<<a, b>>] > 0

\* every member of S weakly beats every alternative outside S
WeaklyDominating(S) == \A s \in S : \A t \in Alts \ S : WeaklyBeats(s, t)

\* every member of S strictly beats every alternative outside S
StrictlyDominating(S) == \A s \in S : \A t \in Alts \ S : StrictlyBeats(s, t)

Contribution(ballot) ==
    prefs_ballot([ p \in Alts \X Alts |-> 0 ], A, ballot, P[ballot], params)

\* the sum of the contributions of the ballots of B
RECURSIVE SumContributions(_)
SumContributions(B) ==
    IF B = {} THEN [ p \in Alts \X Alts |-> 0 ]
    ELSE LET ballot == CHOOSE b \in B : TRUE
             c      == Contribution(ballot)
             rest   == SumContributions(B \ {ballot})
         IN  [ p \in Alts \X Alts |-> c[p] + rest[p] ]

\* the number of the equivalence class of a on the ballot: the classes
\* (maximal runs joined by "=") are numbered from 1, left to right
ClassNo(ballot, a) ==
    LET pos == CHOOSE i \in DOMAIN ballot : ballot[i] = a
    IN  Cardinality({ i \in 1..pos :
                        ballot[i] # EQ /\ (i = 1 \/ ballot[i - 1] # EQ) })

\* C4: for a and b both listed on a ballot of multiplicity w, the ballot adds
\* w to pref[a,b] exactly when a's equivalence class comes strictly before
\* b's, and nothing otherwise; pref[a,b] is the sum of the ballots'
\* contributions.
C4_ListedPairs ==
    Returned("pairwise_prefs") =>
        /\ \A ballot \in DOMAIN P :
              LET c == Contribution(ballot)
              IN  \A a, b \in Listed(ballot) :
                      c[<<a, b>>] = IF ClassNo(ballot, a) < ClassNo(ballot, b)
                                    THEN P[ballot] ELSE 0
        /\ pref = SumContributions(DOMAIN P)

\* a ballot with a tie followed by a strict preference, and another ballot
C4_Witness ==
    /\ After("pairwise_prefs")
    /\ <<"B", "=", "A", "C">> \in DOMAIN P
    /\ Cardinality(DOMAIN P) = 2
    /\ pref[<<"A", "C">>] = 2
    /\ pref[<<"A", "B">>] = 1

\* C5: with missing_preferred_less true a ballot of multiplicity w adds w to
\* pref[x,y] for every listed x and every unlisted y of A, and nothing to
\* pref[y,x]; with it false a ballot changes no entry pref[x,y] or pref[y,x]
\* with y unlisted.
C5_UnlistedPairs ==
    Returned("pairwise_prefs") =>
        \A ballot \in DOMAIN P :
            LET c == Contribution(ballot)
            IN  \A x \in Alts : \A y \in Alts \ Listed(ballot) :
                    /\ c[<<x, y>>] =
                          IF params /\ x \in Listed(ballot) THEN P[ballot] ELSE 0
                    /\ c[<<y, x>>] = 0

\* a truncated ballot ending in a tie, counted with missing_preferred_less
C5_Witness ==
    /\ After("pairwise_prefs")
    /\ params
    /\ Len(A) = 3
    /\ DOMAIN P = { <<"A", "=", "B">> }
    /\ pref[<<"B", "C">>] = 2
    /\ pref[<<"C", "B">>] = 0

\* C6: margin[a,b] = pref[a,b] - pref[b,a] for all a, b, so that
\* margin[a,b] = -margin[b,a] and margin[a,a] = 0.
C6_MarginAntisymmetric ==
    Returned("pairwise_margins") =>
        \A a, b \in Alts :
            /\ margin[<<a, b>>] = pref[<<a, b>>] - pref[<<b, a>>]
            /\ margin[<<a, b>>] = 0 - margin[<<b, a>>]
            /\ margin[<<a, a>>] = 0

\* a margin of two votes, and a pair whose opposite preferences cancel
C6_Witness ==
    /\ After("pairwise_margins")
    /\ \E a, b \in Alts : margin[<<a, b>>] = 2 /\ margin[<<b, a>>] = 0 - 2
    /\ \E c, d \in Alts :
          c # d /\ pref[<<c, d>>] = 1 /\ pref[<<d, c>>] = 1 /\ margin[<<c, d>>] = 0

\* C7: the elimination loop of IRV_winner never gets stuck (a round always
\* has a candidate to eliminate, the return a candidate to return),
\* eliminates one remaining candidate per round, none twice, makes exactly
\* |A|-1 eliminations and ends with exactly one remaining candidate, which
\* is the value returned.
C7_IRVTerminates ==
    (pc = "IRV_loop" \/ After("IRV_loop")) =>
        /\ Len(remaining) + Len(elim) = Len(A)
        /\ Cardinality(Range(elim)) = Len(elim)
        /\ Range(remaining) \cap Range(elim) = {}
        /\ Range(remaining) \cup Range(elim) = Alts
        /\ Len(elim) <= Len(A) - 1
        /\ (pc = "IRV_loop") =>
              IF IRV_more(remaining)
              THEN LET cnt == IRV_count(A, P, elim)
                   IN  \E c \in Range(remaining) :
                          \A e \in Range(remaining) \ {c} :
                             tuple_less(IRV_key(cnt[c], TB[c], c),
                                        IRV_key(cnt[e], TB[e], e))
              ELSE Len(remaining) >= 1
        /\ After("IRV_loop") =>
              /\ Len(elim) = Len(A) - 1
              /\ remaining = <<irv>>

\* IRV_winner has returned after two eliminations
C7_Witness ==
    /\ After("IRV_loop")
    /\ Len(A) = 3
    /\ Len(elim) = 2
    /\ irv = remaining[1]

C9_BeatpathInSmith ==
    Returned("beatpath_winner") =>
        /\ bpw # {}
        /\ bpw \subseteq Range(smith)

\* potential winners that are a proper part of a larger Smith set
C9_Witness ==
    /\ After("beatpath_winner")
    /\ Len(smith) = 3
    /\ Cardinality(bpw) = 1

\* C10: beatpath_potential_winners returns exactly the alternatives i for
\* which no j # i has PD[j,i] greater under greaterD than PD[i,j], and
\* beatpath_winner returns the member of that set with the lowest TB value.
C10_BeatpathWinner ==
    Returned("beatpath_tiebreak") =>
        /\ bpw = { i \in Alts :
                     \A j \in Alts \ {i} :
                        ~greaterD(PD[<<j, i>>], PD[<<i, j>>]) }
        /\ beatpath \in bpw
        /\ \A w \in bpw \ {beatpath} : TB[beatpath] < TB[w]

\* a tie among the potential winners that the tie-breaker decides
C10_Witness ==
    /\ After("beatpath_tiebreak")
    /\ bpw = {"B", "C"}
    /\ beatpath = "B"

(***************************************************************************)
(* The rules leave their inputs alone.                                     *)
(***************************************************************************)
\* C12: once setup_TB has run, no call of a rule changes the alternative
\* list A, the profile P (its ballots and their multiplicities) or TB: they
\* keep the values they had when setup_TB returned.
C12_RulesLeaveInputs ==
    [][pc # "import" => (A' = A /\ P' = P /\ TB' = TB)]_vars

\* every rule has run, IRV_winner removed two candidates from its list, and
\* the inputs are those of a three-candidate election with ballots
C12_Witness ==
    /\ pc = "done"
    /\ Len(A) = 3
    /\ Len(elim) = 2
    /\ Len(remaining) = 1
    /\ number_of_ballots_in_profile(P) = MaxVoters
    /\ TB = TB_table(A)

(***************************************************************************)
(* First-choice rules.                                                     *)
(***************************************************************************)
\* total multiplicity of the ballots that list a first
FirstChoice(a) ==
    SumOver({ ballot \in DOMAIN P : Len(ballot) > 0 /\ ballot[1] = a }, P)

\* the total weight of the profile
Total == SumOver(DOMAIN P, P)

\* the largest first-choice count
MaxFirst ==
    CHOOSE v \in { FirstChoice(a) : a \in Alts } :
        \A a \in Alts : FirstChoice(a) <= v

\* C14: plurality_winners returns exactly the alternatives whose
\* first-choice count is the maximum over A, and plurality_winner returns
\* the one of them with the lowest TB value.
C14_PluralityWinners ==
    Returned("plurality_winner") =>
        /\ Range(plurality) = { a \in Alts : FirstChoice(a) = MaxFirst }
        /\ plurality1 \in Range(plurality)
        /\ \A w \in Range(plurality) : TB[plurality1] <= TB[w]

\* two alternatives tie for the most first choices, a third has fewer
C14_Witness ==
    /\ After("plurality_winner")
    /\ MaxFirst = 1
    /\ Len(plurality) = 2
    /\ Alts \ Range(plurality) # {}
    /\ plurality1 = plurality[1]

\* C15: majority_winner returns a exactly when twice a's first-choice count
\* exceeds the total weight n, for odd and even n, and None otherwise; a
\* count of exactly n/2 gives None.
C15_MajorityWinner ==
    Returned("majority_winner") =>
        LET M == { a \in Alts : 2 * FirstChoice(a) > Total }
        IN  IF M = {} THEN majority = None ELSE M = {majority}

\* an alternative is first on exactly half of the ballots: None
C15_Witness ==
    /\ After("majority_winner")
    /\ Total > 0
    /\ \E a \in Alts : 2 * FirstChoice(a) = Total
    /\ majority = None

\* C16: unanimous_winner returns a exactly when a is the one alternative
\* that is first on every ballot (its first-choice count is the total
\* weight), and None in every other case, a profile of total weight 0
\* included.
C16_UnanimousWinner ==
    Returned("unanimous_winner") =>
        LET U == { a \in Alts : FirstChoice(a) = Total }
        IN  IF Total > 0 /\ U # {}
            THEN U = {unanimous}
            ELSE unanimous = None

(***************************************************************************)
(* Borda and minimax.                                                      *)
(***************************************************************************)
\* the Borda score of a: the sum of a's row of pref
Score(a) == SumOver({ <<a, b>> : b \in Alts }, pref)

\* the alternatives of the highest Borda score
TopScore == { a \in Alts : \A b \in Alts : Score(b) <= Score(a) }

\* C17: Borda_winner returns an alternative of maximum score, and among
\* those of maximum score the one with the lowest TB value.
C17_BordaWinner ==
    Returned("Borda_winner") =>
        /\ borda \in TopScore
        /\ \A w \in TopScore : TB[borda] <= TB[w]

\* two alternatives share the highest score, above a third
C17_Witness ==
    /\ After("Borda_winner")
    /\ Cardinality(TopScore) = 2
    /\ Cardinality(Alts) = 3
    /\ Score(borda) > 0

\* the largest net loss of a against a rival
WorstLoss(a) ==
    CHOOSE v \in { margin[<<b, a>>] : b \in Alts \ {a} } :
        \A b \in Alts \ {a} : margin[<<b, a>>] <= v

\* the alternatives whose largest net loss is smallest
LeastWorst == { a \in Alts : \A b \in Alts : WorstLoss(a) <= WorstLoss(b) }

\* C18: with two alternatives or more, minimax_winner returns an
\* alternative that minimizes the largest net loss against a rival, and
\* among those the one with the lowest TB value.
C18_MinimaxWinner ==
    (Returned("minimax_winner") /\ Len(A) >= 2) =>
        /\ minimax \in LeastWorst
        /\ \A w \in LeastWorst : TB[minimax] <= TB[w]

\* the winner loses to no rival, so that its largest net loss is negative
\* while the code's maximum, which also ranges over b = a, is 0
C18_Witness ==
    /\ After("minimax_winner")
    /\ Len(A) = 3
    /\ WorstLoss(minimax) < 0

(***************************************************************************)
(* The mixed strategy and GTD.                                             *)
(***************************************************************************)
\* the sum of the fractions xx[i], i in S, over their common denominator
FracSum(xx, S) == <<SumOver(S, [ i \in S |-> xx[i][1] ]), xx[1][2]>>

\* a solver has returned a vector whose clamped components do not all vanish
SolverReturned == raw # << >> /\ \E i \in DOMAIN raw : raw[i] > 0

\* C19: for every solver result with a positive component, the vector
\* lp_solver and qp_solver return (negative components replaced by 0, then
\* every component divided by the sum) has no negative component and its
\* components sum to 1.
C19_StrategyIsDistribution ==
    SolverReturned =>
        /\ pc # "gt_raised"
        /\ DOMAIN strategy = DOMAIN A
        /\ \A i \in DOMAIN strategy :
              /\ strategy[i][2] > 0
              /\ strategy[i][2] = strategy[1][2]
              /\ strategy[i][1] >= 0
        /\ LET total == FracSum(strategy, DOMAIN strategy)
           IN  total[1] = total[2]

\* qp_solver has returned for a result with a negative component, replaced
\* by 0, and two positive ones
C19_Witness ==
    /\ pc = "gtd_winner"
    /\ Len(A) = 3
    /\ \E i, j, k \in DOMAIN raw :
          /\ raw[i] < 0 /\ strategy[i][1] = 0
          /\ raw[j] > 0 /\ raw[k] > raw[j]
          /\ frac_less(strategy[j], strategy[k])

\* the position of the GTD winner in A
GtdIndex == CHOOSE i \in DOMAIN A : A[i] = gtd

\* C20: gtd_winner returns an alternative whose probability is max(x), and
\* when several alternatives have that probability, the one of them with
\* the lowest TB value.
C20_GtdWinner ==
    pc = "gt_done" =>
        /\ gtd \in Alts
        /\ \A i \in DOMAIN A : ~frac_less(strategy[GtdIndex], strategy[i])
        /\ \A i \in DOMAIN A :
              frac_equal(strategy[i], strategy[GtdIndex]) => TB[gtd] <= TB[A[i]]

\* two alternatives share the largest probability, a third has less, and
\* the winner is not the first of A
C20_Witness ==
    /\ pc = "gt_done"
    /\ Len(A) = 3
    /\ gtd = A[2]
    /\ frac_equal(strategy[2], strategy[3])
    /\ frac_less(strategy[1], strategy[2])
    /\ strategy[1][1] > 0

(***************************************************************************)
(* Two elections side by side.                                             *)
(***************************************************************************)
\* C11: whatever the interleaving of the calls of two elections with
\* different alternative lists, every rule call (plurality_winner,
\* IRV_winner, Borda_winner, minimax_winner, beatpath_winner, gtd_winner)
\* returns the winner it returns when its election runs alone.
C11_ElectionsIndependent ==
    \A e \in DOMAIN elections : elections[e].won = elections[e].alone

\* the alternatives of election e
AltsOf(e) == Range(elections[e].A)

\* setup_TB of election e has just returned
SetupReturned(e) == last = e /\ At(e, "plurality_winner")

\* C13: when setup_TB(A) returns, whatever TB held before, TB maps exactly
\* the alternatives of A one-to-one onto 0..|A|-1, in sort order: the first
\* alternative has value 0, and every nonempty set of alternatives has one
\* member whose TB value is below that of all the others.
C13_SetupTB ==
    \A e \in DOMAIN elections :
        SetupReturned(e) =>
            /\ DOMAIN TB = AltsOf(e)
            /\ { TB[a] : a \in AltsOf(e) } = 0..(Cardinality(AltsOf(e)) - 1)
            /\ \A a, b \in AltsOf(e) : TB[a] < TB[b] <=> Rank(a) < Rank(b)
            /\ TB[sorted(AltsOf(e))[1]] = 0
            /\ \A S \in SUBSET AltsOf(e) \ {{}} :
                  \E w \in S : \A v \in S \ {w} : TB[w] < TB[v]

\* setup_TB has returned for an election while TB held the table of the
\* other one, with an alternative this election does not have and another
\* value for one it has
C13_Witness ==
    \E e, o \in DOMAIN elections :
        /\ e # o
        /\ SetupReturned(e)
        /\ elections[o].next > 1
        /\ AltsOf(o) \ AltsOf(e) # {}
        /\ \E a \in AltsOf(e) \cap AltsOf(o) :
              TB_table(elections[o].A)[a] # TB[a]

(***************************************************************************)
(* The randomized GT winner.                                               *)
(***************************************************************************)
\* the cumulative probability x[0]+...+x[i-1] of the first i alternatives
CumProb(i) == FracSum(strategy, 1..i)

\* the position of the GT winner in A
GtIndex == CHOOSE i \in DOMAIN A : A[i] = gt

Completed == Smith_dfs(A, P, params).completed

\* b can be reached from a along edges x -> y, pref[x,y] >= pref[y,x]
RECURSIVE ReachableFrom(_, _)
ReachableFrom(S, k) ==
    IF k = 0 THEN S
    ELSE ReachableFrom(S \cup { b \in Alts : \E a \in S : a # b /\ WeaklyBeats(a, b) },
                       k - 1)

Reaches(a, b) == b \in ReachableFrom({a}, Len(A))

\* the strongly connected component of a
Component(a) == { b \in Alts : Reaches(a, b) /\ Reaches(b, a) }

\* the set Smith_set returns is one strongly connected component of the
\* graph, and the last one the traversal popped
LastCompleted ==
    LET popped == Completed
    IN  /\ Len(popped) > 0
        /\ Range(smith) = popped[Len(popped)]
        /\ \A a \in Range(smith) : Range(smith) = Component(a)

\* C22 as stated: the SCC Smith_set returns is the last SCC completed over
\* the whole traversal, and it is the sink of the condensation: no edge
\* leads from a member of the returned set to an alternative outside it.
C22_Original ==
    Returned("Smith_set") =>
        /\ LastCompleted
        /\ \A s \in Range(smith) : \A t \in Alts \ Range(smith) :
              ~WeaklyBeats(s, t)

\* C22 (amended): the SCC Smith_set returns is the last SCC completed over
\* the whole traversal, and it is the source of the condensation: no edge
\* leads from an alternative outside the returned set to a member of it.
C22_LastSccIsSource ==
    Returned("Smith_set") =>
        /\ LastCompleted
        /\ \A s \in Range(smith) : \A t \in Alts \ Range(smith) :
              ~WeaklyBeats(t, s)

\* three components popped one after the other, the last one from a DFS
\* that is not the first
C22_Witness ==
    /\ Returned("Smith_set")
    /\ Len(Completed) = 3
    /\ smith = <<"C">>
    /\ Completed[1] # {"A"}

(***************************************************************************)
(* The edges of the Smith graph.                                           *)
(***************************************************************************)
\* C23: in Smith_set there is an edge a -> b exactly when at least half of
\* the voters (at least n/2 of the total ballot weight n) prefer a to b.
C23_EdgeIsHalfOfVoters ==
    Returned("Smith_set") =>
        \A a, b \in Alts :
            a # b => (Smith_edge(pref, a, b) <=> 2 * pref[<<a, b>>] >= Total)

(***************************************************************************)
(* The counts of an IRV round.                                             *)
(***************************************************************************)
\* the candidates eliminated before the latest round
ElimBefore == Range(SubSeq(elim, 1, Len(elim) - 1))

\* the positions of a ballot that hold a candidate still in the race at
\* the latest round
LivePositions(ballot) ==
    { i \in DOMAIN ballot : ballot[i] # EQ /\ ballot[i] \notin ElimBefore }

\* the candidates the latest round credits with a ballot: the first entry
\* that is neither a marker nor eliminated, if there is one
CreditedBy(ballot) ==
    { ballot[i] : i \in { k \in LivePositions(ballot) :
                            \A j \in LivePositions(ballot) : k <= j } }

\* the ballot with its markers deleted
RECURSIVE WithoutMarkers(_)
WithoutMarkers(ballot) ==
    IF ballot = << >> THEN << >>
    ELSE IF Head(ballot) = EQ THEN WithoutMarkers(Tail(ballot))
         ELSE <<Head(ballot)>> \o WithoutMarkers(Tail(ballot))

\* the profile in which every ballot is replaced by the ballot without its
\* markers
ProfileWithoutMarkers ==
    [ bare \in { WithoutMarkers(b) : b \in DOMAIN P } |->
        SumOver({ b \in DOMAIN P : WithoutMarkers(b) = bare }, P) ]

\* C24: in every IRV round each ballot of multiplicity w adds w to the count
\* of exactly one candidate, the first entry of the ballot that is neither a
\* marker nor eliminated, or to no candidate if there is no such entry; the
\* counts are those of the profile with the markers deleted, and eliminated
\* candidates have count 0.
C24_IRVCount ==
    (After("IRV_winner") /\ Len(elim) > 0) =>
        /\ DOMAIN count = Alts
        /\ \A ballot \in DOMAIN P : Cardinality(CreditedBy(ballot)) <= 1
        /\ \A c \in Alts :
              count[c] = SumOver({ b \in DOMAIN P : c \in CreditedBy(b) }, P)
        /\ SumOver(Alts, count) =
              Total - SumOver({ b \in DOMAIN P : CreditedBy(b) = {} }, P)
        /\ count = IRV_count(A, ProfileWithoutMarkers, SubSeq(elim, 1, Len(elim) - 1))
        /\ \A c \in ElimBefore : count[c] = 0

\* the second round, with a ballot credited to the candidate after a
\* marker: the one before the marker is eliminated
C24_Witness ==
    /\ pc = "IRV_loop"
    /\ Len(elim) = 2
    /\ \E b \in DOMAIN P :
          /\ Len(b) >= 3
          /\ b[1] \in ElimBefore
          /\ b[2] = EQ
          /\ b[3] \in CreditedBy(b)
          /\ count[b[3]] > 1

(***************************************************************************)
(* The order on pair strengths.                                            *)
(***************************************************************************)
\* C25: greaterD is a strict order on pair strengths: greaterD(p,p) is
\* false, greaterD(p,q) excludes greaterD(q,p), greaterD(p,q) and
\* greaterD(q,r) give greaterD(p,r); minD(p,q) and maxD(p,q) each return
\* one of p, q, and minD(p,q) is not greater than maxD(p,q).
C25_GreaterDStrictOrder ==
    pc = "compared" =>
        /\ ~order.pp
        /\ order.pq => ~order.qp
        /\ (order.pq /\ order.qr) => order.pr
        /\ order.minD \in {pairs[1], pairs[2]}
        /\ order.maxD \in {pairs[1], pairs[2]}
        /\ ~order.min_over_max

\* two wins of the same size told apart by the losing side, above a tie
C25_Witness ==
    /\ pc = "compared"
    /\ pairs[1][1] = pairs[2][1]
    /\ pairs[1][2] < pairs[2][2]
    /\ pairs[2][1] > pairs[2][2]
    /\ pairs[3][1] = pairs[3][2]
    /\ order.pq /\ order.qr /\ order.pr
    /\ order.minD = pairs[2]
    /\ order.maxD = pairs[1]

(***************************************************************************)
(* Beatpath strengths.                                                     *)
(***************************************************************************)
\* the paths from j to k through distinct alternatives
Paths(j, k) ==
    { s \in UNION { [1..n -> Alts] : n \in 2..Len(A) } :
        /\ s[1] = j
        /\ s[Len(s)] = k
        /\ \A x, y \in DOMAIN s : x # y => s[x] # s[y] }

\* the link x -> y as a pair strength
Link(x, y) == <<pref[<<x, y>>], pref[<<y, x>>]>>

\* a weakest link of path s
Weakest(s) ==
    LET links == { Link(s[x], s[x + 1]) : x \in 1..(Len(s) - 1) }
    IN  CHOOSE l \in links : \A l2 \in links : ~greaterD(l, l2)

\* neither pair strength is greater than the other
Equivalent(p, q) == ~greaterD(p, q) /\ ~greaterD(q, p)

\* C26: after the triple loop of beatpath_potential_winners, for every
\* ordered pair j # k, PD[j,k] is equivalent under greaterD to the
\* greatest, over the paths from j to k through distinct alternatives, of
\* the weakest link of the path.
C26_StrongestPath ==
    Returned("beatpath_winner") =>
        \A j, k \in Alts :
            j # k =>
               /\ \E s \in Paths(j, k) : Equivalent(PD[<<j, k>>], Weakest(s))
               /\ \A s \in Paths(j, k) : ~greaterD(Weakest(s), PD[<<j, k>>])

\* a strength that only a path with two intermediate alternatives gives
C26_Witness ==
    /\ Returned("beatpath_winner")
    /\ Len(A) = 4
    /\ \E j, k \in Alts :
          /\ j # k
          /\ \A s \in Paths(j, k) :
                Len(s) < 4 => greaterD(PD[<<j, k>>], Weakest(s))

(***************************************************************************)
(* The matrix handed to cvxopt.                                            *)
(***************************************************************************)
\* the entries of the payoff matrix
PayoffEntries == UNION { Range(payoff[i]) : i \in DOMAIN payoff }

\* C27: in lp_solver and qp_solver, for every integer payoff matrix, after
\* the matrix is negated and transposed and v = max(1, -2*min of the
\* negated matrix) is added to every entry, every entry is strictly
\* positive.
C27_ShiftedIsPositive ==
    pc \in {"qp_solver", "shifted"} =>
        /\ shifted.v >= 1
        /\ \A x \in PayoffEntries : shifted.v >= 2 * x
        /\ Range(shifted.M) = { shifted.v - x : x \in PayoffEntries }
        /\ \A rc \in DOMAIN shifted.M : shifted.M[rc] > 0

\* a matrix with a positive entry, so that the negated matrix has a
\* negative one, and both solvers have shifted it
C27_Witness ==
    /\ pc = "shifted"
    /\ Len(payoff) = 2
    /\ payoff[1][2] = MaxPayoff
    /\ payoff[2][1] = 0 - 1
    /\ shifted.v = 2 * MaxPayoff

(***************************************************************************)
(* The Smith set dominates.                                                *)
(***************************************************************************)
\* C28: every member of the set Smith_set returns strictly beats every
\* alternative outside it, and two alternatives that are pairwise tied
\* are both inside or both outside the returned set.
C28_SmithSetDominates ==
    Returned("Smith_set") =>
        /\ \A s \in Range(smith) : \A t \in Alts \ Range(smith) :
              pref[<<s, t>>] > pref[<<t, s>>]
        /\ \A a, b \in Alts :
              pref[<<a, b>>] = pref[<<b, a>>] =>
                 (a \in Range(smith) <=> b \in Range(smith))

\* two members that tie with each other at one vote each, and a third
\* alternative outside the set
C28_Witness ==
    /\ Returned("Smith_set")
    /\ Len(A) = 3
    /\ Len(smith) = 2
    /\ pref[<<smith[1], smith[2]>>] = pref[<<smith[2], smith[1]>>]
    /\ pref[<<smith[1], smith[2]>>] > 0

(***************************************************************************)
(* Condorcet consistency.                                                  *)
(***************************************************************************)
\* C29: when Condorcet_winner returns an alternative w, minimax_winner
\* returns w, beatpath_potential_winners returns the set that holds w alone
\* and beatpath_winner returns w, whatever values TB holds.
C29_CondorcetConsistent ==
    (After("Condorcet_winner") /\ condorcet # None) =>
        /\ After("minimax_winner") => minimax = condorcet
        /\ After("beatpath_winner") => bpw = {condorcet}
        /\ After("beatpath_tiebreak") => beatpath = condorcet

\* the winner has the last TB value of three and some ballot starts with a
\* rival
C29_Witness ==
    /\ pc = "done"
    /\ Len(A) = 3
    /\ condorcet # None
    /\ TB[condorcet] = 2
    /\ beatpath = condorcet
    /\ minimax = condorcet
    /\ Cardinality(DOMAIN P) = 2
    /\ \E ballot \in DOMAIN P : ballot # << >> /\ ballot[1] # condorcet

(***************************************************************************)
(* A majority winner in IRV.                                               *)
(***************************************************************************)
\* the candidates of the round that count was computed for
InRound == Range(remaining) \cup {loser}

\* C30: when majority_winner returns an alternative a, no round of
\* IRV_winner eliminates a, the count of a in each round is strictly above
\* the count of every other candidate of the round, and IRV_winner returns
\* a, whatever values TB holds.
C30_MajorityWinnerWinsIRV ==
    (After("majority_winner") /\ majority # None) =>
        /\ majority \notin Range(elim)
        /\ elim # << >> =>
              \A c \in InRound \ {majority} : count[majority] > count[c]
        /\ After("IRV_loop") => irv = majority

\* two rounds were held, the majority winner has the last TB value, and a
\* ballot starts with a rival, which the second round eliminated
C30_Witness ==
    /\ After("IRV_loop")
    /\ majority # None
    /\ irv = majority
    /\ Len(elim) = 2
    /\ TB[majority] = 2
    /\ \E ballot \in DOMAIN P :
          /\ ballot # << >>
          /\ ballot[1] = elim[2]
          /\ count[elim[2]] = 1

====
